---- MODULE Spec2Model ----
(***************************************************************************)
(* A model of the PCC class-list parser (src/classlist_parser/parser.py). *)
(* and of the tool that compares two of its workbooks                     *)
(* (src/adds_drops_tool/compare.py).                                      *)
(*                                                                         *)
(* Text is modelled at the level of whitespace-delimited tokens: a line is *)
(* the sequence of its tokens, a page text is the sequence of its lines    *)
(* (the pieces text.split("\n") yields), a document is the sequence of its *)
(* pages.  The regular expressions of the source are modelled by what they *)
(* accept on such token sequences; the character classes (\d, \w, ...)     *)
(* are tables over the token vocabulary.  Lines carry no leading or        *)
(* trailing whitespace.                                                    *)
(***************************************************************************)
EXTENDS Integers, Sequences, FiniteSets, TLC

VARIABLES
    SETTINGS,       \* the configuration dictionary
    doc,            \* the selected PDF: its pages, in order
    pdf_file,       \* the path the file dialog returned ("" = cancelled)
    pc,             \* position of the script
    opened,         \* pdfplumber.open has been entered
    term_text,      \* result of _detect_term_from_pdf
    pageNo,         \* number of pages the page loop has finished or entered
    lines,          \* lines of the page being processed
    hidx,           \* index of the header pass (0-based, as idx below)
    idx,            \* index of the student-row pass
    current_class,  \* the course context ({} = no active course)
    records,        \* the record list
    origin,         \* history: for each record, <<page, idx>> of its row
    visits,         \* history: <<page, idx>> of each row-pass iteration
    out_name,       \* output file name (without directory)
    dirCreated,     \* os.makedirs has run
    grouped,        \* the grouping, in insertion order
    workbook,       \* the sheets written, in order
    message,        \* the message box shown, if any
    \* the comparison script
    cpc,              \* position of the comparison script
    first_week_book,  \* the sheets of the first-week workbook on disk
    second_week_book, \* the sheets of the second-week workbook on disk
    first_week_file,  \* the path the first dialog returned ("" = cancelled)
    second_week_file, \* the path the second dialog returned
    first_week_df,    \* read_excel(first_week_file, sheet_name=None)
    second_week_df,   \* read_excel(second_week_file, sheet_name=None)
    sheetNo,          \* number of sheets the loop has finished
    added_students,   \* rows collected as added
    dropped_students, \* rows collected as dropped
    perSheet,         \* history: the rows each compared sheet contributed
    added_df,         \* the added rows after drop_duplicates
    dropped_df,       \* the dropped rows after drop_duplicates
    changes           \* students_changes.xlsx, once written

parserVars ==
    <<SETTINGS, doc, pdf_file, pc, opened, term_text, pageNo, lines, hidx,
      idx, current_class, records, origin, visits, out_name, dirCreated,
      grouped, workbook, message>>
compareVars ==
    <<cpc, first_week_book, second_week_book, first_week_file,
      second_week_file, first_week_df, second_week_df, sheetNo,
      added_students, dropped_students, perSheet, added_df, dropped_df,
      changes>>
vars == <<parserVars, compareVars>>

(***************************************************************************)
(* Bounds of the model.                                                    *)
(***************************************************************************)
MaxPages == 2
MaxDocLines == 3

(***************************************************************************)
(* Token classes: the character classes of the regular expressions,        *)
(* tabulated over the tokens that occur in the modelled documents.         *)
(***************************************************************************)
\* \d{5}
Digits5 == {"12345", "22222", "33333"}
\* \d
Digit1 == {"1", "2"}
\* \d+
DigitTokens == Digits5 \cup Digit1 \cup
               {"170", "999", "221", "2025", "2026",
                "202503", "202601", "202505"}
\* \d+[A-Z]?
CourseNumTokens == DigitTokens \cup {"280A"}
\* \w+
WordTokens == CourseNumTokens \cup
              {"GEO", "MTH", "Intro", "to", "Geography", "Excluded", "Topic",
               "Calculus", "Jane", "Rick", "Doe", "Roe", "extra",
               "G00012345", "G00067890",
               "FALL", "Spring", "Fall", "Winter", "Summer"}
\* tokens in which G\d{8} finds a match (the match is the token itself)
GNumTokens == {"G00012345", "G00067890"}
\* tokens that contain the configured email domain "@pcc.edu"
DomainTokens == {"jdoe@pcc.edu", "rroe@pcc.edu"}
\* tokens that end in a comma, and the token without it
CommaTokens == {"Doe,", "Roe,"}
DropComma(tok) == CASE tok = "Doe," -> "Doe"
                    [] tok = "Roe," -> "Roe"
                    [] OTHER -> tok

(***************************************************************************)
(* The configuration.                                                      *)
(***************************************************************************)
None == "None"
AllowedCourses == {"170", "221", "223", "240", "242", "244", "246", "248",
                   "252", "254", "260", "265", "266", "267", "270", "280A"}
\* output_name_prefix "GEO_Class_Lists", as characters
OutputNamePrefix == <<"G", "E", "O", "_", "C", "l", "a", "s", "s", "_",
                      "L", "i", "s", "t", "s">>
DefaultSettings == [department_prefix |-> None,
                    allowed_courses |-> [all |-> FALSE, set |-> AllowedCourses],
                    output_name_prefix |-> OutputNamePrefix]

(***************************************************************************)
(* Lines of the modelled documents.                                        *)
(***************************************************************************)
HdrA == <<"12345", "GEO", "170", "1", "Intro", "to", "Geography">>
HdrX == <<"22222", "GEO", "999", "1", "Excluded", "Topic">>
HdrB == <<"33333", "MTH", "221", "1", "Calculus">>
Row1 == <<"1", "Doe,", "Jane", "G00012345">>
RowE == <<"2", "Roe,", "Rick", "G00067890", "rroe@pcc.edu">>
EmailLine == <<"jdoe@pcc.edu", "extra">>
EmptyLine == <<>>

CoreLines == {HdrA, HdrX, HdrB, Row1, RowE, EmailLine}

(***************************************************************************)
(* Pages.  A page is [ok, text]: ok = FALSE when extract_text() raises;    *)
(* text = <<>> stands for both None and "" (extract_text() or "").         *)
(***************************************************************************)
\* text.split("\n"): the empty text splits into one empty line
SplitLines(text) == IF text = <<>> THEN <<EmptyLine>> ELSE text

(***************************************************************************)
(* Course-header matcher (parser.py 154-170).                              *)
(***************************************************************************)
EmptyDict == [k \in {} |-> ""]

\* re.match(r"\s*(\d{5})\s+(\w+)\s+(\d+[A-Z]?)\s+(\d)\s+(.*)", line):
\* four tokens of the right classes followed by whitespace, i.e. by a fifth
\* token (lines have no trailing whitespace)
course_match(line) ==
    /\ Len(line) >= 5
    /\ line[1] \in Digits5
    /\ line[2] \in WordTokens
    /\ line[3] \in CourseNumTokens
    /\ line[4] \in Digit1

\* the filter: allowed is not None and course_number not in allowed
Excluded(settings, course_number) ==
    /\ ~settings.allowed_courses.all
    /\ course_number \notin settings.allowed_courses.set

\* HeaderStep with a fault: an excluded header leaves the previous course active
HeaderStepKeep(settings, cur, line) ==
    IF course_match(line)
    THEN IF Excluded(settings, line[3])
         THEN cur
         ELSE [CRN |-> line[1], Subject |-> line[2],
               CourseNumber |-> line[3], Section |-> line[4],
               CourseName |-> SubSeq(line, 5, Len(line))]
    ELSE cur

\* HeaderStep with a fault: the first header wins, a later one is ignored
HeaderStepFirstWins(settings, cur, line) ==
    IF course_match(line) /\ cur = EmptyDict
    THEN IF Excluded(settings, line[3])
         THEN EmptyDict
         ELSE [CRN |-> line[1], Subject |-> line[2],
               CourseNumber |-> line[3], Section |-> line[4],
               CourseName |-> SubSeq(line, 5, Len(line))]
    ELSE cur

\* HeaderStep with a fault: the filter is skipped and every header is taken
HeaderStepNoFilter(settings, cur, line) ==
    IF course_match(line)
    THEN [CRN |-> line[1], Subject |-> line[2],
          CourseNumber |-> line[3], Section |-> line[4],
          CourseName |-> SubSeq(line, 5, Len(line))]
    ELSE cur

\* one iteration of the header loop: the new value of current_class
HeaderStep(settings, cur, line) ==
    IF course_match(line)
    THEN IF Excluded(settings, line[3])
         THEN EmptyDict
         ELSE [CRN |-> line[1], Subject |-> line[2],
               CourseNumber |-> line[3], Section |-> line[4],
               CourseName |-> SubSeq(line, 5, Len(line))]
    ELSE cur

(***************************************************************************)
(* Student-row matcher (parser.py 176-202).                                *)
(***************************************************************************)
\* re.search(r"(G\d{8})", line): position of the first token holding a
\* match, 0 when there is none
RECURSIVE FirstIn(_, _, _)
FirstIn(line, S, i) ==
    IF i > Len(line) THEN 0
    ELSE IF line[i] \in S THEN i ELSE FirstIn(line, S, i + 1)

gnum_match(line) == FirstIn(line, GNumTokens, 1)

\* number of identifier tokens of a line
GNumCount(line) == Cardinality({i \in 1..Len(line) : line[i] \in GNumTokens})

\* NameParts with a fault: without a comma the text after the marker is
\* kept as the last name
NamePartsKeepLast(line) ==
    LET g == gnum_match(line)
        name_part == SubSeq(line, 1, g - 1)
        rest == SubSeq(name_part, 2, Len(name_part))
        c1 == FirstIn(rest, CommaTokens, 1)
        after == SubSeq(rest, c1 + 1, Len(rest))
        c2 == FirstIn(after, CommaTokens, 1)
    IN  IF Len(name_part) < 2 THEN [ok |-> FALSE]
        ELSE IF c1 = 0 THEN [ok |-> TRUE, last |-> rest, first |-> <<>>]
        ELSE [ok |-> TRUE,
              last |-> SubSeq(rest, 1, c1 - 1) \o <<DropComma(rest[c1])>>,
              first |-> IF c2 = 0 THEN after
                        ELSE SubSeq(after, 1, c2 - 1)
                             \o <<DropComma(after[c2])>>]

\* the name decomposition; [ok |-> FALSE] is the except branch
\*   name_part  = line.split(g)[0]
\*   last_first = name_part.split(None, 1)[1].split(',')
NameParts(line) ==
    LET g == gnum_match(line)
        name_part == SubSeq(line, 1, g - 1)
        rest == SubSeq(name_part, 2, Len(name_part))
        c1 == FirstIn(rest, CommaTokens, 1)
        after == SubSeq(rest, c1 + 1, Len(rest))
        c2 == FirstIn(after, CommaTokens, 1)
    IN  IF Len(name_part) < 2 THEN [ok |-> FALSE]      \* [1] of split(None, 1)
        ELSE IF c1 = 0 THEN [ok |-> FALSE]             \* last_first[1]
        ELSE [ok |-> TRUE,
              last |-> SubSeq(rest, 1, c1 - 1) \o <<DropComma(rest[c1])>>,
              first |-> IF c2 = 0 THEN after
                        ELSE SubSeq(after, 1, c2 - 1)
                             \o <<DropComma(after[c2])>>]

\* SETTINGS["email_domain"] in email_line
HasDomain(line) == \E i \in 1..Len(line) : line[i] \in DomainTokens

\* the email look-ahead (parser.py 188-192); ls are the lines of the page,
\* i the 0-based index of the row
EmailFor(ls, i) ==
    IF i + 1 < Len(ls) /\ HasDomain(ls[i + 2]) THEN ls[i + 2][1] ELSE ""

\* the dictionary appended to records
MakeRecord(cur, ls, i) ==
    LET line == ls[i + 1]
        np == NameParts(line)
    IN  [First |-> IF np.ok THEN np.first ELSE <<>>,
         Last |-> IF np.ok THEN np.last ELSE <<>>,
         G |-> line[gnum_match(line)],
         Email |-> EmailFor(ls, i),
         NonPcc |-> "",
         Class |-> <<cur.Subject, cur.CourseNumber>>,
         CRN |-> cur.CRN]

\* RowAdvance with a fault: the index stays on a matched row
RowAdvanceStuck(ls, i) == 0

\* how far the row pass advances after a matched row (parser.py 203):
\* idx += 2, whether or not the next line was taken as the email line
RowAdvance(ls, i) == 2

(***************************************************************************)
(* Term detection (parser.py 46-92).  A term label is the sequence of its  *)
(* two tokens, the empty string is <<>>.                                   *)
(***************************************************************************)
\* (Spring|Summer|Fall|Winter) under re.I, and m.group(1).title()
SeasonTokens == {"FALL", "Fall", "Spring", "Summer", "Winter"}
Title(tok) == IF tok = "FALL" THEN "Fall" ELSE tok
\* 20\d{2}
YearTokens == {"2025", "2026"}
\* 20\d{2}0[1-4]
TermCodeTokens == {"202503", "202601"}
\* code[:4] and int(code[-1])
First4(code) == CASE code = "202503" -> "2025"
                  [] code = "202601" -> "2026"
                  [] code = "202505" -> "2025"
LastDigit(code) == CASE code = "202503" -> 3
                     [] code = "202601" -> 1
                     [] code = "202505" -> 5

\* season_map.get(d, '')
season_map(d) == CASE d = 1 -> "Winter"
                   [] d = 2 -> "Spring"
                   [] d = 3 -> "Summer"
                   [] d = 4 -> "Fall"
                   [] OTHER -> ""

\* f"{season} {year}".strip()
_term_from_code(code) ==
    IF season_map(LastDigit(code)) = "" THEN <<First4(code)>>
    ELSE <<season_map(LastDigit(code)), First4(code)>>

\* the tokens of a text: \s+ spans line breaks
RECURSIVE Flatten(_)
Flatten(text) == IF text = <<>> THEN <<>> ELSE Head(text) \o Flatten(Tail(text))

\* _TERM_TEXT_RE.search(header): position of the leftmost match, 0 if none
RECURSIVE TermTextSearch(_, _)
TermTextSearch(toks, i) ==
    IF i + 1 > Len(toks) THEN 0
    ELSE IF toks[i] \in SeasonTokens /\ toks[i + 1] \in YearTokens THEN i
    ELSE TermTextSearch(toks, i + 1)

\* the loop over _TERM_CODE_RE.finditer(header)
RECURSIVE TermCodeLoop(_, _)
TermCodeLoop(toks, i) ==
    IF i > Len(toks) THEN <<>>
    ELSE IF toks[i] \in TermCodeTokens /\ _term_from_code(toks[i]) # <<>>
         THEN _term_from_code(toks[i])
    ELSE TermCodeLoop(toks, i + 1)

\* pdf.pages[0].extract_text() or "", "" when that raises
FirstPageText(pdf) ==
    IF Len(pdf) = 0 \/ ~pdf[1].ok THEN <<>> ELSE Flatten(pdf[1].text)

\* _detect_term_from_pdf with a fault: the coded token is tried first
DetectTermCodeFirst(pdf) ==
    LET header == FirstPageText(pdf)
        m == TermTextSearch(header, 1)
    IN  IF TermCodeLoop(header, 1) # <<>> THEN TermCodeLoop(header, 1)
        ELSE IF m # 0 THEN <<Title(header[m]), header[m + 1]>>
        ELSE <<>>

_detect_term_from_pdf(pdf) ==
    LET header == FirstPageText(pdf)
        m == TermTextSearch(header, 1)
    IN  IF m # 0 THEN <<Title(header[m]), header[m + 1]>>
        ELSE TermCodeLoop(header, 1)

(***************************************************************************)
(* Output name (parser.py 95-112, 207-210).  File names are sequences of   *)
(* characters.                                                             *)
(***************************************************************************)
\* [A-Za-z0-9 _\-]
SafeChars == {"A", "B", "C", "D", "E", "F", "G", "H", "I", "J", "K", "L", "M",
              "N", "O", "P", "Q", "R", "S", "T", "U", "V", "W", "X", "Y", "Z",
              "a", "b", "c", "d", "e", "f", "g", "h", "i", "j", "k", "l", "m",
              "n", "o", "p", "q", "r", "s", "t", "u", "v", "w", "x", "y", "z",
              "0", "1", "2", "3", "4", "5", "6", "7", "8", "9",
              " ", "_", "-"}
\* \s
SpaceChars == {" ", "\t"}

\* the characters of a token of a term label
TokenChars(tok) ==
    CASE tok = "Fall" -> <<"F", "a", "l", "l">>
      [] tok = "Winter" -> <<"W", "i", "n", "t", "e", "r">>
      [] tok = "Spring" -> <<"S", "p", "r", "i", "n", "g">>
      [] tok = "Summer" -> <<"S", "u", "m", "m", "e", "r">>
      [] tok = "2025" -> <<"2", "0", "2", "5">>
      [] tok = "2026" -> <<"2", "0", "2", "6">>

\* the characters of a label: its tokens joined by one space
RECURSIVE TextChars(_)
TextChars(toks) ==
    IF toks = <<>> THEN <<>>
    ELSE IF Len(toks) = 1 THEN TokenChars(toks[1])
    ELSE TokenChars(toks[1]) \o <<" ">> \o TextChars(Tail(toks))

\* str.strip()
RECURSIVE LStrip(_)
LStrip(s) == IF s # <<>> /\ Head(s) \in SpaceChars THEN LStrip(Tail(s)) ELSE s
RECURSIVE RStrip(_)
RStrip(s) ==
    IF s # <<>> /\ s[Len(s)] \in SpaceChars
    THEN RStrip(SubSeq(s, 1, Len(s) - 1)) ELSE s
Strip(s) == RStrip(LStrip(s))

\* re.sub(r'[^A-Za-z0-9 _\-]', '', s)
KeepSafe(s) == SelectSeq(s, LAMBDA c : c \in SafeChars)

\* re.sub(r'\s+', ' ', s)
RECURSIVE Collapse(_)
Collapse(s) ==
    IF s = <<>> THEN <<>>
    ELSE IF Head(s) \in SpaceChars
         THEN <<" ">> \o Collapse(LStrip(s))
         ELSE <<Head(s)>> \o Collapse(Tail(s))

\* _safe_filename with a fault: repeated whitespace is left as it is
SafeFilenameNoCollapse(s) == Strip(KeepSafe(Strip(s)))

_safe_filename(s) == Strip(Collapse(KeepSafe(Strip(s))))

\* stem = f"{prefix}_{term_text}" if term_text else prefix
Stem(settings, term) ==
    IF term # <<>>
    THEN settings.output_name_prefix \o <<"_">> \o TextChars(term)
    ELSE settings.output_name_prefix

OutName(settings, term) ==
    _safe_filename(Stem(settings, term)) \o <<".", "x", "l", "s", "x">>

(***************************************************************************)
(* Grouping and export (parser.py 229-237).  The key f"{Class}_{CRN}" is   *)
(* modelled as the pair it is built from: CRN is always five digits, so    *)
(* the string determines the pair.                                         *)
(***************************************************************************)
GroupKey(rec) == [Class |-> rec.Class, CRN |-> rec.CRN]

\* GroupAppend with a fault: the record, or its new group, is put first
GroupAppendFront(g, rec) ==
    IF \E j \in 1..Len(g) : g[j].key = GroupKey(rec)
    THEN [j \in 1..Len(g) |->
            IF g[j].key = GroupKey(rec)
            THEN [g[j] EXCEPT !.recs = <<rec>> \o @]
            ELSE g[j]]
    ELSE <<[key |-> GroupKey(rec), recs |-> <<rec>>]>> \o g

\* grouped[key].append(rec) on an insertion-ordered dictionary
GroupAppend(g, rec) ==
    IF \E j \in 1..Len(g) : g[j].key = GroupKey(rec)
    THEN [j \in 1..Len(g) |->
            IF g[j].key = GroupKey(rec)
            THEN [g[j] EXCEPT !.recs = Append(@, rec)]
            ELSE g[j]]
    ELSE Append(g, [key |-> GroupKey(rec), recs |-> <<rec>>])

RECURSIVE GroupLoop(_, _)
GroupLoop(g, recs) ==
    IF recs = <<>> THEN g
    ELSE GroupLoop(GroupAppend(g, Head(recs)), Tail(recs))

\* GroupRecords with a fault: one record per identifier is kept in a group
RECURSIVE DedupLoop(_, _)
DedupLoop(g, recs) ==
    IF recs = <<>> THEN g
    ELSE IF \E j \in 1..Len(g) :
              /\ g[j].key = GroupKey(Head(recs))
              /\ \E k \in 1..Len(g[j].recs) : g[j].recs[k].G = Head(recs).G
         THEN DedupLoop(g, Tail(recs))
         ELSE DedupLoop(GroupAppend(g, Head(recs)), Tail(recs))
GroupRecordsDedup(recs) == DedupLoop(<<>>, recs)

GroupRecords(recs) == GroupLoop(<<>>, recs)

\* the sheets of the workbook: "Combined", then one per group (key[:31]; the
\* keys of the modelled courses are shorter than 31 characters)
Sheets(recs, g) ==
    [Combined |-> recs,
     classes |-> [j \in 1..Len(g) |-> [name |-> g[j].key, rows |-> g[j].recs]]]

(***************************************************************************)
(* The documents and configurations the model is run on.                   *)
(***************************************************************************)
FailPage == [ok |-> FALSE, text |-> <<>>]

\* the shapes of the documents of k pages and m lines in all: for each page
\* its number of lines, or -1 for a page whose extraction raises
RECURSIVE Shapes(_, _)
Shapes(k, m) ==
    IF k = 0 THEN (IF m = 0 THEN {<<>>} ELSE {})
    ELSE UNION {{<<x>> \o sh : sh \in Shapes(k - 1, IF x < 0 THEN m ELSE m - x)} :
                x \in -1..m}

\* the number of lines before page i of a shape
RECURSIVE LinesBefore(_, _)
LinesBefore(sh, i) ==
    IF i = 1 THEN 0
    ELSE LinesBefore(sh, i - 1) + (IF sh[i - 1] < 0 THEN 0 ELSE sh[i - 1])

\* the document of a shape and its lines
Paginate(ls, sh) ==
    [i \in 1..Len(sh) |->
        IF sh[i] < 0 THEN FailPage
        ELSE [ok |-> TRUE,
              text |-> SubSeq(ls, LinesBefore(sh, i) + 1,
                              LinesBefore(sh, i) + sh[i])]]

\* d is a document of at most n pages and b lines in all over a set of lines
IsDocOver(d, vocab, n, b) ==
    \E m \in 0..b : \E k \in 0..n :
        \E ls \in [1..m -> vocab] : \E sh \in Shapes(k, m) :
            d = Paginate(ls, sh)

\* the end-to-end scenario of the specification (section 8)
ScenarioDoc ==
    <<[ok |-> TRUE, text |-> <<HdrA, Row1, EmailLine>>],
      [ok |-> TRUE, text |-> <<HdrX, RowE>>]>>

\* class lists of the usual shape: two pages, each a header line followed by
\* one student (with its email line, without, or with the email in the row)
ListPages ==
    {[ok |-> TRUE, text |-> <<h>> \o r] :
        h \in {HdrA, HdrX, HdrB},
        r \in {<<Row1>>, <<Row1, EmailLine>>, <<RowE>>}}
ListDocs == {<<p, q>> : p \in ListPages, q \in ListPages}

\* the documents of the model: all the documents within the bounds over a
\* set of lines, and the class lists of the usual shape
IsDoc(d, vocab) ==
    \/ IsDocOver(d, vocab, MaxPages, MaxDocLines)
    \/ d \in ListDocs

\* the script on class lists whose student rows are damaged: no text after
\* the leading marker, no comma, the identifier alone, or a last name only
NoRemainder == <<"1", "G00012345">>
NoComma == <<"1", "Doe", "Jane", "G00012345">>
TokenOnly == <<"G00067890">>
LastOnly == <<"2", "Roe,", "G00067890">>
RowLines == {HdrA, Row1, NoRemainder, NoComma, TokenOnly, LastOnly}

\* the comparison script is not run
CompareNotRun ==
    /\ cpc = "off"
    /\ first_week_book = <<>>
    /\ second_week_book = <<>>
    /\ first_week_file = ""
    /\ second_week_file = ""
    /\ first_week_df = <<>>
    /\ second_week_df = <<>>
    /\ sheetNo = 0
    /\ added_students = <<>>
    /\ dropped_students = <<>>
    /\ perSheet = <<>>
    /\ added_df = <<>>
    /\ dropped_df = <<>>
    /\ changes = <<>>

\* the state before the script is run
NotStarted ==
    /\ pdf_file = ""
    /\ pc = "select"
    /\ opened = FALSE
    /\ term_text = <<>>
    /\ pageNo = 0
    /\ lines = <<>>
    /\ hidx = 0
    /\ idx = 0
    /\ current_class = EmptyDict
    /\ records = <<>>
    /\ origin = <<>>
    /\ visits = <<>>
    /\ out_name = <<>>
    /\ dirCreated = FALSE
    /\ grouped = <<>>
    /\ workbook = <<>>
    /\ message = ""
    /\ CompareNotRun

InitWith(vocab, settings) ==
    /\ SETTINGS \in settings
    /\ IsDoc(doc, vocab)
    /\ NotStarted

Init == InitWith(CoreLines, {DefaultSettings})

(***************************************************************************)
(* The script (parser.py 134-242).                                         *)
(***************************************************************************)
\* SelectFile with a fault: the script goes on to open the empty path
SelectFileNoExit ==
    /\ pc = "select"
    /\ \E f \in {"", "classlist.pdf"} : pdf_file' = f
    /\ pc' = "open"
    /\ UNCHANGED compareVars
    /\ UNCHANGED <<SETTINGS, doc, opened, term_text, pageNo, lines, hidx, idx,
                   current_class, records, origin, visits, out_name,
                   dirCreated, grouped, workbook, message>>

\* askopenfilename, then sys.exit() on an empty path: SystemExit is not an
\* Exception, so the handler of line 241 does not see it
SelectFile ==
    /\ pc = "select"
    /\ \E f \in {"", "classlist.pdf"} : pdf_file' = f
    /\ pc' = IF pdf_file' = "" THEN "exited" ELSE "open"
    /\ UNCHANGED compareVars
    /\ UNCHANGED <<SETTINGS, doc, opened, term_text, pageNo, lines, hidx, idx,
                   current_class, records, origin, visits, out_name,
                   dirCreated, grouped, workbook, message>>

\* records = [], current_class = {}, pdfplumber.open
OpenPdf ==
    /\ pc = "open"
    /\ opened' = TRUE
    /\ records' = <<>>
    /\ current_class' = EmptyDict
    /\ pc' = "term"
    /\ UNCHANGED compareVars
    /\ UNCHANGED <<SETTINGS, doc, pdf_file, term_text, pageNo, lines, hidx,
                   idx, origin, visits, out_name, dirCreated, grouped,
                   workbook, message>>

DetectTerm ==
    /\ pc = "term"
    /\ term_text' = _detect_term_from_pdf(doc)
    /\ pc' = "page"
    /\ UNCHANGED compareVars
    /\ UNCHANGED <<SETTINGS, doc, pdf_file, opened, pageNo, lines, hidx, idx,
                   current_class, records, origin, visits, out_name,
                   dirCreated, grouped, workbook, message>>

\* ExtractPage with a fault: each page starts without an active course
ExtractPageClears ==
    /\ pc = "page"
    /\ pageNo < Len(doc)
    /\ doc[pageNo + 1].ok
    /\ pageNo' = pageNo + 1
    /\ lines' = SplitLines(doc[pageNo + 1].text)
    /\ hidx' = 0
    /\ current_class' = EmptyDict
    /\ pc' = "header"
    /\ UNCHANGED compareVars
    /\ UNCHANGED <<SETTINGS, doc, pdf_file, opened, term_text, idx,
                   records, origin, visits, out_name,
                   dirCreated, grouped, workbook, message>>

\* for page in pdf.pages: text = (page.extract_text() or ""); split
ExtractPage ==
    /\ pc = "page"
    /\ pageNo < Len(doc)
    /\ doc[pageNo + 1].ok
    /\ pageNo' = pageNo + 1
    /\ lines' = SplitLines(doc[pageNo + 1].text)
    /\ hidx' = 0
    /\ pc' = "header"
    /\ UNCHANGED compareVars
    /\ UNCHANGED <<SETTINGS, doc, pdf_file, opened, term_text, idx,
                   current_class, records, origin, visits, out_name,
                   dirCreated, grouped, workbook, message>>

\* extract_text() raises: nothing in the loop catches it, the handler of
\* line 241 reports it
ExtractRaises ==
    /\ pc = "page"
    /\ pageNo < Len(doc)
    /\ ~doc[pageNo + 1].ok
    /\ pageNo' = pageNo + 1
    /\ message' = "Error"
    /\ pc' = "error"
    /\ UNCHANGED compareVars
    /\ UNCHANGED <<SETTINGS, doc, pdf_file, opened, term_text, lines, hidx,
                   idx, current_class, records, origin, visits, out_name,
                   dirCreated, grouped, workbook>>

\* the page loop is exhausted
EndOfPages ==
    /\ pc = "page"
    /\ pageNo = Len(doc)
    /\ pc' = "name"
    /\ UNCHANGED compareVars
    /\ UNCHANGED <<SETTINGS, doc, pdf_file, opened, term_text, pageNo, lines,
                   hidx, idx, current_class, records, origin, visits,
                   out_name, dirCreated, grouped, workbook, message>>

\* one iteration of "for line in lines"; after the last one the row pass
\* starts with idx = 0
HeaderLine ==
    /\ pc = "header"
    /\ hidx < Len(lines)
    /\ current_class' = HeaderStep(SETTINGS, current_class, lines[hidx + 1])
    /\ hidx' = hidx + 1
    /\ IF hidx' < Len(lines)
       THEN pc' = "header" /\ idx' = idx
       ELSE pc' = "rows" /\ idx' = 0
    /\ UNCHANGED compareVars
    /\ UNCHANGED <<SETTINGS, doc, pdf_file, opened, term_text, pageNo, lines,
                   records, origin, visits, out_name, dirCreated, grouped,
                   workbook, message>>

\* the condition of line 177
RowMatched(ls, i, cur) == gnum_match(ls[i + 1]) # 0 /\ cur # EmptyDict

\* AppendRecord with a fault: the record is put at the front of the list
AppendRecordFront ==
    /\ pc = "rows"
    /\ idx < Len(lines)
    /\ RowMatched(lines, idx, current_class)
    /\ records' = <<MakeRecord(current_class, lines, idx)>> \o records
    /\ origin' = <<<<pageNo, idx>>>> \o origin
    /\ visits' = Append(visits, <<pageNo, idx>>)
    /\ idx' = idx + RowAdvance(lines, idx)
    /\ pc' = IF idx' < Len(lines) THEN "rows" ELSE "page"
    /\ UNCHANGED compareVars
    /\ UNCHANGED <<SETTINGS, doc, pdf_file, opened, term_text, pageNo, lines,
                   hidx, current_class, out_name, dirCreated, grouped,
                   workbook, message>>

\* one iteration of the while loop that appends a record
AppendRecord ==
    /\ pc = "rows"
    /\ idx < Len(lines)
    /\ RowMatched(lines, idx, current_class)
    /\ records' = Append(records, MakeRecord(current_class, lines, idx))
    /\ origin' = Append(origin, <<pageNo, idx>>)
    /\ visits' = Append(visits, <<pageNo, idx>>)
    /\ idx' = idx + RowAdvance(lines, idx)
    /\ pc' = IF idx' < Len(lines) THEN "rows" ELSE "page"
    /\ UNCHANGED compareVars
    /\ UNCHANGED <<SETTINGS, doc, pdf_file, opened, term_text, pageNo, lines,
                   hidx, current_class, out_name, dirCreated, grouped,
                   workbook, message>>

\* one iteration of the while loop that moves on
SkipLine ==
    /\ pc = "rows"
    /\ idx < Len(lines)
    /\ ~RowMatched(lines, idx, current_class)
    /\ visits' = Append(visits, <<pageNo, idx>>)
    /\ idx' = idx + 1
    /\ pc' = IF idx' < Len(lines) THEN "rows" ELSE "page"
    /\ UNCHANGED compareVars
    /\ UNCHANGED <<SETTINGS, doc, pdf_file, opened, term_text, pageNo, lines,
                   hidx, current_class, records, origin, out_name, dirCreated,
                   grouped, workbook, message>>

BuildName ==
    /\ pc = "name"
    /\ out_name' = OutName(SETTINGS, term_text)
    /\ pc' = "mkdir"
    /\ UNCHANGED compareVars
    /\ UNCHANGED <<SETTINGS, doc, pdf_file, opened, term_text, pageNo, lines,
                   hidx, idx, current_class, records, origin, visits,
                   dirCreated, grouped, workbook, message>>

MakeDirs ==
    /\ pc = "mkdir"
    /\ dirCreated' = TRUE
    /\ pc' = "group"
    /\ UNCHANGED compareVars
    /\ UNCHANGED <<SETTINGS, doc, pdf_file, opened, term_text, pageNo, lines,
                   hidx, idx, current_class, records, origin, visits,
                   out_name, grouped, workbook, message>>

Group ==
    /\ pc = "group"
    /\ grouped' = GroupRecords(records)
    /\ pc' = "write"
    /\ UNCHANGED compareVars
    /\ UNCHANGED <<SETTINGS, doc, pdf_file, opened, term_text, pageNo, lines,
                   hidx, idx, current_class, records, origin, visits,
                   out_name, dirCreated, workbook, message>>

WriteWorkbook ==
    /\ pc = "write"
    /\ workbook' = <<Sheets(records, grouped)>>
    /\ pc' = "show"
    /\ UNCHANGED compareVars
    /\ UNCHANGED <<SETTINGS, doc, pdf_file, opened, term_text, pageNo, lines,
                   hidx, idx, current_class, records, origin, visits,
                   out_name, dirCreated, grouped, message>>

ShowDone ==
    /\ pc = "show"
    /\ message' = "Done"
    /\ pc' = "done"
    /\ UNCHANGED compareVars
    /\ UNCHANGED <<SETTINGS, doc, pdf_file, opened, term_text, pageNo, lines,
                   hidx, idx, current_class, records, origin, visits,
                   out_name, dirCreated, grouped, workbook>>

Next ==
    \/ SelectFile
    \/ OpenPdf
    \/ DetectTerm
    \/ ExtractPage
    \/ ExtractRaises
    \/ EndOfPages
    \/ HeaderLine
    \/ AppendRecord
    \/ SkipLine
    \/ BuildName
    \/ MakeDirs
    \/ Group
    \/ WriteWorkbook
    \/ ShowDone

Spec == Init /\ [][Next]_vars

(***************************************************************************)
(* Specifications over other inputs: every configuration the comments of   *)
(* SETTINGS describe, and first pages that carry term information.         *)
(***************************************************************************)
CfgSettings ==
    {DefaultSettings,
     [DefaultSettings EXCEPT !.department_prefix = "GEO"],
     [DefaultSettings EXCEPT !.allowed_courses = [all |-> TRUE, set |-> {}]]}

InitCfg == InitWith(CoreLines, CfgSettings)
SpecCfg == InitCfg /\ [][Next]_vars

TermLines == {<<"Term:", "FALL", "2025">>, <<"202503">>, <<"202601">>,
              <<"202505">>, <<"Spring">>, <<"2026">>}

InitTerm == InitWith(TermLines, {DefaultSettings})
SpecTerm == InitTerm /\ [][Next]_vars

\* the script with output_name_prefix edited: every prefix of at most
\* MaxPrefixLen characters over a letter, the space, the tab and a character
\* no file name keeps, and a prefix that is the stem of the documented example;
\* the documents either name a term or do not
MaxPrefixLen == 3
PrefixChars == {"a", " ", "\t", "/"}
ExamplePrefix == OutputNamePrefix \o <<"_", "F", "a", "l", "l", "/",
                                      "2", "0", "2", "5", "!">>
Prefixes ==
    {ExamplePrefix} \cup
    UNION {[1..n -> PrefixChars] : n \in 0..MaxPrefixLen}
NameSettings ==
    {[DefaultSettings EXCEPT !.output_name_prefix = p] : p \in Prefixes}
NameLines == {<<"Term:", "FALL", "2025">>}
InitName == InitWith(NameLines, NameSettings)
SpecName == InitName /\ [][Next]_vars

\* the script on longer class lists: MaxGroupPages pages, each a header line
\* and a student, a student alone, or a page that fails to yield its text
MaxGroupPages == 3
GroupPages ==
    {[ok |-> TRUE, text |-> t] :
        t \in {<<HdrA, Row1>>, <<HdrA, RowE>>, <<HdrB, Row1>>, <<HdrB, RowE>>,
               <<HdrX, Row1>>, <<RowE>>}}
    \cup {FailPage}
InitGroups ==
    /\ SETTINGS = DefaultSettings
    /\ doc \in [1..MaxGroupPages -> GroupPages]
    /\ NotStarted
SpecGroups == InitGroups /\ [][Next]_vars

InitRows == InitWith(RowLines, {DefaultSettings})
SpecRows == InitRows /\ [][Next]_vars

(***************************************************************************)
(* The workbook on disk (parser.py 233-237).  A data frame is [cols,       *)
(* rows]: its column names and its rows, each a function on the column     *)
(* names; a workbook is the sequence of its sheets, each [name, df].       *)
(***************************************************************************)
\* the keys of a record, which pd.DataFrame(records) makes the columns
ParserColumns == {"First Name", "Last Name", "G Number", "PCC email address",
                  "Non-PCC email", "Class", "CRN"}

RowOf(rec) ==
    [c \in ParserColumns |->
        CASE c = "First Name" -> rec.First
          [] c = "Last Name" -> rec.Last
          [] c = "G Number" -> rec.G
          [] c = "PCC email address" -> rec.Email
          [] c = "Non-PCC email" -> rec.NonPcc
          [] c = "Class" -> rec.Class
          [] c = "CRN" -> rec.CRN]

\* pd.DataFrame(recs): an empty list gives a frame without columns
DataFrame(recs) ==
    [cols |-> IF recs = <<>> THEN {} ELSE ParserColumns,
     rows |-> [j \in 1..Len(recs) |-> RowOf(recs[j])]]

\* the sheet names: "Combined", and key[:31] of f"{Class}_{CRN}" (the names
\* of the model are shorter than 31 characters)
CombinedName == <<"Combined">>
SheetName(key) == <<key.Class[1], key.Class[2], key.CRN>>

\* the sheets to_excel writes, in order
ToExcel(sheets) ==
    <<[name |-> CombinedName, df |-> DataFrame(sheets.Combined)]>> \o
    [j \in 1..Len(sheets.classes) |->
        [name |-> SheetName(sheets.classes[j].name),
         df |-> DataFrame(sheets.classes[j].rows)]]

(***************************************************************************)
(* The comparison script (compare.py).                                     *)
(***************************************************************************)
\* the columns selected after the merge, without their suffix
SelectedColumns == {"First Name", "Last Name", "G Number",
                    "PCC email address", "Class", "Term", "CRN"}

\* crn in second_week_df, and second_week_df[crn]
HasSheet(dfs, name) == \E k \in 1..Len(dfs) : dfs[k].name = name
SheetNamed(dfs, name) ==
    dfs[CHOOSE k \in 1..Len(dfs) : dfs[k].name = name].df

\* the join keys in lexicographic order (how="outer" sorts the keys)
GNumOrder == <<"G00012345", "G00067890">>
KeysOf(df) == {df.rows[j]["G Number"] : j \in 1..Len(df.rows)}
RowsOf(df, g) == SelectSeq(df.rows, LAMBDA r : r["G Number"] = g)
NaN == <<>>

\* the merged rows of one key, with the indicator column
MergeKey(first, second, g) ==
    LET l == RowsOf(first, g)
        r == RowsOf(second, g)
    IN  IF r = <<>>
        THEN [j \in 1..Len(l) |->
                [merge |-> "left_only", first_week |-> l[j],
                 second_week |-> NaN]]
        ELSE IF l = <<>>
        THEN [j \in 1..Len(r) |->
                [merge |-> "right_only", first_week |-> NaN,
                 second_week |-> r[j]]]
        ELSE [j \in 1..(Len(l) * Len(r)) |->
                [merge |-> "both",
                 first_week |-> l[((j - 1) \div Len(r)) + 1],
                 second_week |-> r[((j - 1) % Len(r)) + 1]]]

RECURSIVE MergeLoop(_, _, _)
MergeLoop(first, second, keys) ==
    IF keys = <<>> THEN <<>>
    ELSE MergeKey(first, second, Head(keys)) \o
         MergeLoop(first, second, Tail(keys))

\* pd.merge(first, second, on=["G Number"], how="outer", indicator=True, ...)
Merge(first, second) ==
    MergeLoop(first, second,
              SelectSeq(GNumOrder,
                        LAMBDA g : g \in KeysOf(first) \cup KeysOf(second)))

\* the merge finds its key in both frames
CanMerge(first, second) == "G Number" \in first.cols \cap second.cols

\* the selection finds its columns: a column gets a suffix only when both
\* frames have it
CanSelect(first, second) ==
    \A c \in SelectedColumns \ {"G Number"} : c \in first.cols \cap second.cols

\* Students with a fault: the rows of both weeks are taken as well
StudentsBoth(merged, side) ==
    LET sel == SelectSeq(merged, LAMBDA m : m.merge \in {side, "both"})
    IN  [j \in 1..Len(sel) |->
            [c \in SelectedColumns |->
                IF side = "right_only" THEN sel[j].second_week[c]
                ELSE sel[j].first_week[c]]]

\* merged_df[merged_df['_merge'] == side][[...]], renamed, as a list of rows
Students(merged, side) ==
    LET sel == SelectSeq(merged, LAMBDA m : m.merge = side)
    IN  [j \in 1..Len(sel) |->
            [c \in SelectedColumns |->
                IF side = "right_only" THEN sel[j].second_week[c]
                ELSE sel[j].first_week[c]]]

\* df.drop_duplicates(subset=['G Number', 'CRN']): the first row of each pair
RECURSIVE DropDuplicates(_, _)
DropDuplicates(rows, seen) ==
    IF rows = <<>> THEN <<>>
    ELSE LET k == <<Head(rows)["G Number"], Head(rows)["CRN"]>>
         IN  IF k \in seen THEN DropDuplicates(Tail(rows), seen)
             ELSE <<Head(rows)>> \o DropDuplicates(Tail(rows), seen \cup {k})

\* the two file dialogs, then read_excel of both files; a cancelled dialog
\* gives the empty path, which read_excel cannot open
LoadWorkbooks ==
    /\ cpc = "load"
    /\ \E f \in {"", "first.xlsx"} : first_week_file' = f
    /\ \E f \in {"", "second.xlsx"} : second_week_file' = f
    /\ IF first_week_file' = "" \/ second_week_file' = ""
       THEN /\ cpc' = "crashed"
            /\ UNCHANGED <<first_week_df, second_week_df>>
       ELSE /\ cpc' = "sheet"
            /\ first_week_df' = first_week_book
            /\ second_week_df' = second_week_book
    /\ UNCHANGED parserVars
    /\ UNCHANGED <<first_week_book, second_week_book, sheetNo, added_students,
                   dropped_students, perSheet, added_df, dropped_df, changes>>

\* one iteration of the loop over the first week's sheets, for a sheet the
\* second week has as well
CompareSheet ==
    /\ cpc = "sheet"
    /\ sheetNo < Len(first_week_df)
    /\ LET crn == first_week_df[sheetNo + 1].name
           first_week_class == first_week_df[sheetNo + 1].df
       IN  /\ HasSheet(second_week_df, crn)
           /\ LET second_week_class == SheetNamed(second_week_df, crn)
                  merged_df == Merge(first_week_class, second_week_class)
              IN  /\ CanMerge(first_week_class, second_week_class)
                  /\ CanSelect(first_week_class, second_week_class)
                  /\ added_students' =
                        added_students \o Students(merged_df, "right_only")
                  /\ dropped_students' =
                        dropped_students \o Students(merged_df, "left_only")
                  /\ perSheet' =
                        Append(perSheet,
                               [name |-> crn,
                                added |-> Students(merged_df, "right_only"),
                                dropped |-> Students(merged_df, "left_only")])
    /\ sheetNo' = sheetNo + 1
    /\ UNCHANGED parserVars
    /\ UNCHANGED <<cpc, first_week_book, second_week_book, first_week_file,
                   second_week_file, first_week_df, second_week_df, added_df,
                   dropped_df, changes>>

\* the same iteration when the merge or the selection misses a column: the
\* KeyError is not caught
CompareRaises ==
    /\ cpc = "sheet"
    /\ sheetNo < Len(first_week_df)
    /\ LET crn == first_week_df[sheetNo + 1].name
           first_week_class == first_week_df[sheetNo + 1].df
       IN  /\ HasSheet(second_week_df, crn)
           /\ ~(/\ CanMerge(first_week_class, SheetNamed(second_week_df, crn))
                /\ CanSelect(first_week_class, SheetNamed(second_week_df, crn)))
    /\ cpc' = "crashed"
    /\ UNCHANGED parserVars
    /\ UNCHANGED <<first_week_book, second_week_book, first_week_file,
                   second_week_file, first_week_df, second_week_df, sheetNo,
                   added_students, dropped_students, perSheet, added_df,
                   dropped_df, changes>>

\* the iteration for a sheet the second week does not have
SkipSheet ==
    /\ cpc = "sheet"
    /\ sheetNo < Len(first_week_df)
    /\ ~HasSheet(second_week_df, first_week_df[sheetNo + 1].name)
    /\ sheetNo' = sheetNo + 1
    /\ UNCHANGED parserVars
    /\ UNCHANGED <<cpc, first_week_book, second_week_book, first_week_file,
                   second_week_file, first_week_df, second_week_df,
                   added_students, dropped_students, perSheet, added_df,
                   dropped_df, changes>>

\* the two result frames and their de-duplication
MakeFrames ==
    /\ cpc = "sheet"
    /\ sheetNo = Len(first_week_df)
    /\ added_df' = DropDuplicates(added_students, {})
    /\ dropped_df' = DropDuplicates(dropped_students, {})
    /\ cpc' = "write"
    /\ UNCHANGED parserVars
    /\ UNCHANGED <<first_week_book, second_week_book, first_week_file,
                   second_week_file, first_week_df, second_week_df, sheetNo,
                   added_students, dropped_students, perSheet, changes>>

\* students_changes.xlsx and the closing message
WriteChanges ==
    /\ cpc = "write"
    /\ changes' = <<[Added |-> added_df, Dropped |-> dropped_df]>>
    /\ cpc' = "done"
    /\ UNCHANGED parserVars
    /\ UNCHANGED <<first_week_book, second_week_book, first_week_file,
                   second_week_file, first_week_df, second_week_df, sheetNo,
                   added_students, dropped_students, perSheet, added_df,
                   dropped_df>>

NextCompare ==
    \/ LoadWorkbooks
    \/ CompareSheet
    \/ CompareRaises
    \/ SkipSheet
    \/ MakeFrames
    \/ WriteChanges

(***************************************************************************)
(* The workbooks the comparison is run on: workbooks the parser writes,    *)
(* and class-list workbooks whose sheets also have a Term column.          *)
(***************************************************************************)
MaxRows == 2

\* the record lists of at most MaxRows records, each made by the parser from
\* a student row under an accepted header
ParserRecords ==
    {MakeRecord(HeaderStep(DefaultSettings, EmptyDict, h), <<r>>, 0) :
        h \in {HdrA, HdrB}, r \in {Row1, RowE}}
ParserBooks ==
    {ToExcel(Sheets(recs, GroupRecords(recs))) :
        recs \in UNION {[1..n -> ParserRecords] : n \in 0..MaxRows}}

\* a row of a class list with a Term column
TermRow(g, crn) ==
    [c \in SelectedColumns |->
        CASE c = "First Name" -> IF g = "G00012345" THEN <<"Jane">> ELSE <<"Rick">>
          [] c = "Last Name" -> IF g = "G00012345" THEN <<"Doe">> ELSE <<"Roe">>
          [] c = "G Number" -> g
          [] c = "PCC email address" ->
                IF g = "G00012345" THEN "jdoe@pcc.edu" ELSE "rroe@pcc.edu"
          [] c = "Class" ->
                IF crn = "12345" THEN <<"GEO", "170">> ELSE <<"MTH", "221">>
          [] c = "Term" -> <<"Fall", "2025">>
          [] c = "CRN" -> crn]
TermFrames(n) ==
    {[cols |-> SelectedColumns, rows |-> rs] :
        rs \in UNION {[1..k -> {TermRow(g, crn) : g \in GNumTokens,
                                                   crn \in {"12345", "33333"}}] :
                      k \in 0..n}}
ClassSheetName == <<"GEO", "170", "12345">>
TermBooks ==
    {<<[name |-> nm, df |-> f]>> :
        nm \in {CombinedName, ClassSheetName}, f \in TermFrames(MaxRows)}
    \cup
    {<<[name |-> CombinedName, df |-> w[1]],
       [name |-> ClassSheetName, df |-> w[2]]>> :
        w \in {v \in TermFrames(MaxRows) \X TermFrames(MaxRows) :
                  Len(v[1].rows) + Len(v[2].rows) <= MaxRows}}

\* the parser is not run
ParserNotRun ==
    /\ SETTINGS = DefaultSettings
    /\ doc = <<>>
    /\ pdf_file = ""
    /\ pc = "off"
    /\ opened = FALSE
    /\ term_text = <<>>
    /\ pageNo = 0
    /\ lines = <<>>
    /\ hidx = 0
    /\ idx = 0
    /\ current_class = EmptyDict
    /\ records = <<>>
    /\ origin = <<>>
    /\ visits = <<>>
    /\ out_name = <<>>
    /\ dirCreated = FALSE
    /\ grouped = <<>>
    /\ workbook = <<>>
    /\ message = ""

InitCompare ==
    /\ ParserNotRun
    /\ cpc = "load"
    /\ first_week_book \in ParserBooks \cup TermBooks
    /\ second_week_book \in ParserBooks \cup TermBooks
    /\ first_week_file = ""
    /\ second_week_file = ""
    /\ first_week_df = <<>>
    /\ second_week_df = <<>>
    /\ sheetNo = 0
    /\ added_students = <<>>
    /\ dropped_students = <<>>
    /\ perSheet = <<>>
    /\ added_df = <<>>
    /\ dropped_df = <<>>
    /\ changes = <<>>

SpecCompare == InitCompare /\ [][NextCompare]_vars

(***************************************************************************)
(* Properties.  First the vocabulary they share.                           *)
(***************************************************************************)
\* the lines of page p, and the line at 0-based index i of page p
PageLines(p) == SplitLines(doc[p].text)
LineAt(p, i) == PageLines(p)[i + 1]

\* the positions <<p, i>> of the document, and document order on them
Positions ==
    UNION {{<<p, i>> : i \in 0..Len(PageLines(p)) - 1} :
           p \in {q \in 1..Len(doc) : doc[q].ok}}
Before(a, b) == a[1] < b[1] \/ (a[1] = b[1] /\ a[2] < b[2])

IsHeaderAt(pos) == course_match(LineAt(pos[1], pos[2]))
IsExcludedHeaderAt(pos) ==
    IsHeaderAt(pos) /\ Excluded(SETTINGS, LineAt(pos[1], pos[2])[3])

\* the scan of the pages is over and the script went on to the export
ScanDone == pc \in {"name", "mkdir", "group", "write", "show", "done"}

\* current_class after the header pass of page p (of a document whose pages
\* 1..p all yield text)
RECURSIVE HeaderPass(_, _, _)
HeaderPass(cur, ls, i) ==
    IF i > Len(ls) THEN cur
    ELSE HeaderPass(HeaderStep(SETTINGS, cur, ls[i]), ls, i + 1)
RECURSIVE ContextOfPage(_)
ContextOfPage(p) ==
    IF p = 0 THEN EmptyDict
    ELSE HeaderPass(ContextOfPage(p - 1), PageLines(p), 1)

\* the last header line before pos, in document order, is an excluded one
FollowsExcludedHeader(pos) ==
    \E h \in Positions :
        /\ IsExcludedHeaderAt(h)
        /\ Before(h, pos)
        /\ ~\E h2 \in Positions :
                IsHeaderAt(h2) /\ Before(h, h2) /\ Before(h2, pos)

(***************************************************************************)
(* C1: every student row that follows a header line with an excluded       *)
(* course number, before the next header line in document order, is        *)
(* absent from the records.  Stated of the rows that produced a record:    *)
(* none of them has an excluded header as the last header before it.       *)
(***************************************************************************)
C1_ExcludedRowsAbsent ==
    \A j \in 1..Len(origin) : ~FollowsExcludedHeader(origin[j])

\* the identifier tokens on the pages 1..p whose row pass runs with a course
RECURSIVE TokensOfLines(_, _)
TokensOfLines(ls, i) ==
    IF i > Len(ls) THEN 0 ELSE GNumCount(ls[i]) + TokensOfLines(ls, i + 1)
RECURSIVE ActiveTokens(_)
ActiveTokens(p) ==
    IF p = 0 THEN 0
    ELSE ActiveTokens(p - 1) +
         (IF ContextOfPage(p) # EmptyDict
          THEN TokensOfLines(PageLines(p), 1) ELSE 0)

(***************************************************************************)
(* C2: when the scan is over, the number of records equals the number of   *)
(* identifier tokens on the lines of the pages scanned while a course is   *)
(* active (one record per token), and tokens on pages scanned while no     *)
(* course is active produce none.                                          *)
(***************************************************************************)
C2_OneRecordPerToken ==
    ScanDone => Len(records) = ActiveTokens(Len(doc))

\* the email the look-ahead rule gives the row at index i of page p
ClaimedEmail(p, i) ==
    LET ls == PageLines(p)
    IN  IF /\ i + 1 < Len(ls)
           /\ gnum_match(ls[i + 2]) = 0
           /\ HasDomain(ls[i + 2])
        THEN ls[i + 2][1]
        ELSE ""

(***************************************************************************)
(* C3: the email of a record is the first token of the line after its row  *)
(* exactly when that line exists on the page, holds no identifier token    *)
(* and contains the email domain; otherwise it is empty.                   *)
(***************************************************************************)
C3_EmailLookAhead ==
    \A j \in 1..Len(records) :
        records[j].Email = ClaimedEmail(origin[j][1], origin[j][2])

(***************************************************************************)
(* C4: after a matched student row the row-pass index advances by two      *)
(* only when the following line was consumed as the email line, and by     *)
(* one otherwise.                                                          *)
(***************************************************************************)
C4_AdvanceRule ==
    [][(pc = "rows" /\ idx < Len(lines)
            /\ RowMatched(lines, idx, current_class))
        => idx' = idx + (IF EmailFor(lines, idx) # "" THEN 2 ELSE 1)]_vars

\* the record of the scenario
JaneDoe == [First |-> <<"Jane">>, Last |-> <<"Doe">>, G |-> "G00012345",
            Email |-> "jdoe@pcc.edu", NonPcc |-> "",
            Class |-> <<"GEO", "170">>, CRN |-> "12345"]

ScenarioResult ==
    (doc = ScenarioDoc /\ ScanDone) => records = <<JaneDoe>>

KeepsRecords ==
    /\ Len(records') >= Len(records)
    /\ \A j \in 1..Len(records) : records'[j] = records[j]

(***************************************************************************)
(* C5: the end-to-end scenario ends with exactly the record of Jane Doe    *)
(* (class "GEO 170", crn 12345, email jdoe@pcc.edu) and nothing from page  *)
(* 2; and no step, in particular no excluded header of a later page,       *)
(* removes or alters a record already in the list.                         *)
(***************************************************************************)
C5_EndToEnd == []ScenarioResult /\ [][KeepsRecords]_vars

\* the scenario has run to its end, with the context cleared by page 2
C5_Witness ==
    /\ doc = ScenarioDoc
    /\ pc = "done"
    /\ records = <<JaneDoe>>
    /\ pageNo = 2
    /\ current_class = EmptyDict

\* how often a record occurs in a list, and in the groups taken together
Occurrences(seq, r) == Cardinality({k \in 1..Len(seq) : seq[k] = r})

RECURSIVE OccurrencesInGroups(_, _, _)
OccurrencesInGroups(g, r, j) ==
    IF j > Len(g) THEN 0
    ELSE Occurrences(g[j].recs, r) + OccurrencesInGroups(g, r, j + 1)

Grouped == pc \in {"write", "show", "done"}

(***************************************************************************)
(* C6: grouping is a partition of the record list: every record is in the  *)
(* group of its key '<className>_<crn>' and in no other, the groups taken  *)
(* together hold every record as often as the list does, and two records   *)
(* share a group exactly when they agree on className and crn.             *)
(***************************************************************************)
C6_GroupingIsPartition ==
    Grouped =>
        /\ \A n \in 1..Len(records) :
              /\ \E j \in 1..Len(grouped) :
                    /\ grouped[j].key.Class = records[n].Class
                    /\ grouped[j].key.CRN = records[n].CRN
                    /\ Occurrences(grouped[j].recs, records[n]) > 0
              /\ OccurrencesInGroups(grouped, records[n], 1)
                    = Occurrences(records, records[n])
        /\ \A j \in 1..Len(grouped) : \A k \in 1..Len(grouped[j].recs) :
              /\ Occurrences(records, grouped[j].recs[k]) > 0
              /\ grouped[j].recs[k].Class = grouped[j].key.Class
              /\ grouped[j].recs[k].CRN = grouped[j].key.CRN
        /\ \A j, k \in 1..Len(grouped) :
              grouped[j].key = grouped[k].key => j = k

\* a record that occurs twice in the list occurs twice in its group
C6_Witness ==
    /\ pc = "done"
    /\ \E j \in 1..Len(grouped) :
          /\ Len(grouped[j].recs) = 2
          /\ grouped[j].recs[1] = grouped[j].recs[2]

\* the text of the first page as tokens; empty when there is none
ClaimFirstPage ==
    IF Len(doc) >= 1 /\ doc[1].ok THEN Flatten(doc[1].text) ELSE <<>>

\* the capitalised season of a season name in any case
ClaimSeasonName(tok) ==
    CASE tok \in {"FALL", "Fall"} -> "Fall"
      [] tok = "Spring" -> "Spring"
      [] tok = "Summer" -> "Summer"
      [] tok = "Winter" -> "Winter"
      [] OTHER -> ""
ClaimYears == {"2025", "2026"}

\* the label of a coded token 20YY0S with S in 1..4; <<>> for any other token
ClaimCodeLabel(tok) ==
    CASE tok = "202503" -> <<"Summer", "2025">>
      [] tok = "202601" -> <<"Winter", "2026">>
      [] OTHER -> <<>>

ClaimPhrases ==
    {<<ClaimSeasonName(ClaimFirstPage[i]), ClaimFirstPage[i + 1]>> :
        i \in {k \in 1..Len(ClaimFirstPage) - 1 :
                  /\ ClaimSeasonName(ClaimFirstPage[k]) # ""
                  /\ ClaimFirstPage[k + 1] \in ClaimYears}}

ClaimCodePositions ==
    {k \in 1..Len(ClaimFirstPage) : ClaimCodeLabel(ClaimFirstPage[k]) # <<>>}

TermDetected == pc \notin {"select", "exited", "open", "term"}

(***************************************************************************)
(* C7: the term is a function of the first page's text: a season followed  *)
(* by a year 20YY gives that phrase with the season capitalised, and has   *)
(* priority over coded tokens; otherwise the first token 20YY0S with S in  *)
(* 1..4 gives its season (1 Winter, 2 Spring, 3 Summer, 4 Fall) and year;  *)
(* otherwise, and when there is no first page or its extraction fails,     *)
(* the term is empty.  Detection never ends in the error report.           *)
(***************************************************************************)
C7_TermDetection ==
    /\ TermDetected =>
          IF ClaimPhrases # {} THEN term_text \in ClaimPhrases
          ELSE IF ClaimCodePositions # {}
               THEN \E k \in ClaimCodePositions :
                       /\ \A k2 \in ClaimCodePositions : k <= k2
                       /\ term_text = ClaimCodeLabel(ClaimFirstPage[k])
          ELSE term_text = <<>>
    /\ pc = "error" => pageNo > 0

\* a coded token precedes the phrase on the first page, and the phrase wins
C7_Witness ==
    /\ pc = "done"
    /\ term_text = <<"Fall", "2025">>
    /\ ClaimCodePositions # {}
    /\ \E k \in ClaimCodePositions :
          ClaimFirstPage[k + 1] = "Term:"

(***************************************************************************)
(* C8: a failure of the text extraction of a page is treated as an empty   *)
(* page: the run does not end in the error report.                         *)
(***************************************************************************)
C8_ExtractionFailureTolerated ==
    (\E p \in 1..Len(doc) : ~doc[p].ok) => (pc # "error" /\ message # "Error")

(***************************************************************************)
(* C9: when the file dialog returns the empty path the run ends at once:   *)
(* nothing is opened or scanned, no directory or workbook is created and   *)
(* no message is shown.                                                    *)
(***************************************************************************)
C9_CancelEndsRun ==
    (pc # "select" /\ pdf_file = "") =>
        /\ pc = "exited"
        /\ ~opened
        /\ pageNo = 0 /\ hidx = 0 /\ visits = <<>> /\ records = <<>>
        /\ ~dirCreated
        /\ workbook = <<>>
        /\ message = ""

\* the dialog was cancelled on a document that has pages
C9_Witness == pc = "exited" /\ pdf_file = "" /\ Len(doc) > 0

(***************************************************************************)
(* C10: when department_prefix is set, a header of another subject does    *)
(* not become the active course and no record carries another subject.     *)
(***************************************************************************)
C10_DepartmentPrefix ==
    SETTINGS.department_prefix # None =>
        /\ current_class # EmptyDict =>
              current_class.Subject = SETTINGS.department_prefix
        /\ \A j \in 1..Len(records) :
              records[j].Class[1] = SETTINGS.department_prefix

(***************************************************************************)
(* C11: every record carries the class '<subject> <courseNumber>' and the  *)
(* crn of one and the same header line of the document; that header line   *)
(* has a course number the allow-list accepts (or the allow-list accepts   *)
(* all) and stands on the record's page or on an earlier page.  So no      *)
(* record carries the class or crn of an excluded header, nor the subject  *)
(* of one header with the crn of another.                                  *)
(***************************************************************************)
C11_RecordOfOneAcceptedHeader ==
    \A j \in 1..Len(records) :
        \E h \in Positions :
            /\ IsHeaderAt(h)
            /\ ~IsExcludedHeaderAt(h)
            /\ h[1] <= origin[j][1]
            /\ records[j].Class = <<LineAt(h[1], h[2])[2], LineAt(h[1], h[2])[3]>>
            /\ records[j].CRN = LineAt(h[1], h[2])[1]

\* a record of a page without header lines, in a document that also has an
\* excluded header line
C11_Witness ==
    /\ ScanDone
    /\ \E h \in Positions : IsExcludedHeaderAt(h)
    /\ \E j \in 1..Len(records) :
          ~\E h \in Positions : h[1] = origin[j][1] /\ IsHeaderAt(h)

\* the stem as the claim composes it, and the stem of the file name written
ClaimStem ==
    IF term_text # <<>>
    THEN SETTINGS.output_name_prefix \o <<"_">> \o TextChars(term_text)
    ELSE SETTINGS.output_name_prefix
OutStem == SubSeq(out_name, 1, Len(out_name) - 5)
Named == pc \in {"mkdir", "group", "write", "show", "done"}

\* sanitize as the claim words it: drop every character that is not a letter,
\* a digit, a space, an underscore or a hyphen, then keep one space for each
\* run of spaces that stands between two kept characters
RECURSIVE ClaimSquash(_, _)
ClaimSquash(s, acc) ==
    IF s = <<>>
    THEN IF acc # <<>> /\ acc[Len(acc)] = " "
         THEN SubSeq(acc, 1, Len(acc) - 1) ELSE acc
    ELSE IF Head(s) \notin SafeChars THEN ClaimSquash(Tail(s), acc)
    ELSE IF Head(s) = " "
         THEN IF acc = <<>> \/ acc[Len(acc)] = " "
              THEN ClaimSquash(Tail(s), acc)
              ELSE ClaimSquash(Tail(s), acc \o <<" ">>)
    ELSE ClaimSquash(Tail(s), acc \o <<Head(s)>>)
ClaimSanitize(s) == ClaimSquash(s, <<>>)

ExampleStem == <<"G", "E", "O", "_", "C", "l", "a", "s", "s", "_",
                 "L", "i", "s", "t", "s", "_", "F", "a", "l", "l",
                 "2", "0", "2", "5">>

(***************************************************************************)
(* C12: the stem of the output file is sanitize('<prefix>_<termLabel>')    *)
(* when a term was detected and sanitize('<prefix>') when the term label   *)
(* is empty, where sanitize drops every character that is not a letter, a  *)
(* digit, a space, an underscore or a hyphen, collapses runs of whitespace *)
(* to one space and trims the ends.  The result contains only those        *)
(* characters, has no two consecutive spaces and no leading or trailing    *)
(* space; sanitizing it again changes nothing; and the stem                *)
(* 'GEO_Class_Lists_Fall/2025!' gives 'GEO_Class_Lists_Fall2025'.          *)
(***************************************************************************)
C12_OutputStemSanitized ==
    /\ _safe_filename(ExamplePrefix) = ExampleStem
    /\ Named =>
        /\ out_name = OutStem \o <<".", "x", "l", "s", "x">>
        /\ OutStem = ClaimSanitize(ClaimStem)
        /\ \A i \in 1..Len(OutStem) : OutStem[i] \in SafeChars
        /\ \A i \in 1..Len(OutStem) - 1 :
              ~(OutStem[i] = " " /\ OutStem[i + 1] = " ")
        /\ OutStem # <<>> => OutStem[1] # " " /\ OutStem[Len(OutStem)] # " "
        /\ _safe_filename(OutStem) = OutStem

\* a term was detected, and the stem has a dropped character and a run of
\* whitespace that ends up inside the name
C12_Witness ==
    /\ pc = "done"
    /\ term_text # <<>>
    /\ \E i \in 1..Len(ClaimStem) : ClaimStem[i] \notin SafeChars
    /\ \E i \in 1..Len(ClaimStem) - 1 :
          ClaimStem[i] = " " /\ ClaimStem[i + 1] = " "
    /\ \E i \in 1..Len(OutStem) : OutStem[i] = " "
    /\ Len(OutStem) < Len(ClaimStem) - 1

\* the comparison got past the de-duplication
Compared == cpc \in {"write", "done"}

\* the sheet names both workbooks have, and the G Numbers of a sheet
SharedNames ==
    {first_week_book[k].name : k \in 1..Len(first_week_book)} \cap
    {second_week_book[k].name : k \in 1..Len(second_week_book)}
GNumbersIn(book, name) ==
    {r["G Number"] : r \in
        UNION {{book[k].df.rows[j] : j \in 1..Len(book[k].df.rows)} :
               k \in {i \in 1..Len(book) : book[i].name = name}}}
Reported(rows) == {rows[j]["G Number"] : j \in 1..Len(rows)}
PairsOf(rows) == {<<rows[j]["G Number"], rows[j]["CRN"]>> : j \in 1..Len(rows)}
NoPairTwice(rows) ==
    \A i, j \in 1..Len(rows) :
        i # j => <<rows[i]["G Number"], rows[i]["CRN"]>> #
                 <<rows[j]["G Number"], rows[j]["CRN"]>>

(***************************************************************************)
(* C13: in the comparison, for every sheet name that both workbooks have,  *)
(* a student (by G Number) is reported as added exactly when present in    *)
(* that sheet of the second week and not of the first, and as dropped      *)
(* exactly when present in that sheet of the first week and not of the     *)
(* second; a student present in both is in neither list; a sheet that only *)
(* one workbook has contributes nothing; and after the de-duplication      *)
(* neither final list has two rows with the same (G Number, CRN) pair.     *)
(* The final lists report the students the sheets reported.                *)
(***************************************************************************)
C13_AddsAndDrops ==
    Compared =>
        /\ {perSheet[k].name : k \in 1..Len(perSheet)} = SharedNames
        /\ \A k \in 1..Len(perSheet) :
              LET inFirst == GNumbersIn(first_week_book, perSheet[k].name)
                  inSecond == GNumbersIn(second_week_book, perSheet[k].name)
              IN  /\ Reported(perSheet[k].added) = inSecond \ inFirst
                  /\ Reported(perSheet[k].dropped) = inFirst \ inSecond
        /\ Reported(added_df) =
              UNION {GNumbersIn(second_week_book, n) \
                     GNumbersIn(first_week_book, n) : n \in SharedNames}
        /\ Reported(dropped_df) =
              UNION {GNumbersIn(first_week_book, n) \
                     GNumbersIn(second_week_book, n) : n \in SharedNames}
        /\ PairsOf(added_df) =
              UNION {PairsOf(perSheet[k].added) : k \in 1..Len(perSheet)}
        /\ PairsOf(dropped_df) =
              UNION {PairsOf(perSheet[k].dropped) : k \in 1..Len(perSheet)}
        /\ NoPairTwice(added_df)
        /\ NoPairTwice(dropped_df)

\* a shared sheet with a student of both weeks and a dropped student, and a
\* sheet that only one workbook has
C13_Witness ==
    /\ cpc = "done"
    /\ \E n \in SharedNames :
          /\ GNumbersIn(first_week_book, n) \cap
             GNumbersIn(second_week_book, n) # {}
          /\ GNumbersIn(first_week_book, n) \
             GNumbersIn(second_week_book, n) # {}
    /\ Len(second_week_book) > Cardinality(SharedNames)
    /\ dropped_df # <<>>

\* the header lines of pages 1..p, and the last of them in document order
HeadersUpTo(p) == {h \in Positions : h[1] <= p /\ IsHeaderAt(h)}
LastHeaderUpTo(p) ==
    CHOOSE h \in HeadersUpTo(p) :
        \A h2 \in HeadersUpTo(p) : h2 = h \/ Before(h2, h)

\* the course context the claims give a page: the course of the last header
\* line of the pages up to it, none when there is no such line or when its
\* course number is excluded
ClaimContext(p) ==
    IF HeadersUpTo(p) = {} \/ IsExcludedHeaderAt(LastHeaderUpTo(p))
    THEN EmptyDict
    ELSE LET line == LineAt(LastHeaderUpTo(p)[1], LastHeaderUpTo(p)[2])
         IN  [CRN |-> line[1], Subject |-> line[2], CourseNumber |-> line[3],
              Section |-> line[4], CourseName |-> SubSeq(line, 5, Len(line))]

(***************************************************************************)
(* C14: attribution is two-pass per page.  The row pass of a page starts   *)
(* when all its lines went through the header pass, with the context of    *)
(* the last matching header, and every record of a page carries the class  *)
(* and crn of the context that is active after the whole header pass of    *)
(* that page: a row that stands before a later header line of its page is  *)
(* attributed to that later header, and yields no record when that header  *)
(* is excluded.                                                            *)
(***************************************************************************)
C14_TwoPassAttribution ==
    /\ pc = "rows" =>
          /\ hidx = Len(lines)
          /\ lines = PageLines(pageNo)
          /\ current_class = ClaimContext(pageNo)
    /\ \A j \in 1..Len(records) :
          LET ctx == ClaimContext(origin[j][1])
          IN  /\ ctx # EmptyDict
              /\ records[j].Class = <<ctx.Subject, ctx.CourseNumber>>
              /\ records[j].CRN = ctx.CRN

\* a record of a row that stands between two header lines of its page and
\* carries the course of the second
C14_Witness ==
    \E j \in 1..Len(records) : \E h1, h2 \in Positions :
        /\ h1[1] = origin[j][1] /\ h2[1] = origin[j][1]
        /\ IsHeaderAt(h1) /\ IsHeaderAt(h2)
        /\ h1[2] < origin[j][2] /\ origin[j][2] < h2[2]
        /\ LineAt(h1[1], h1[2])[1] # LineAt(h2[1], h2[2])[1]
        /\ records[j].CRN = LineAt(h2[1], h2[2])[1]

\* a step changes the context only when it puts a header-shaped line through
\* the header pass
ContextFrame ==
    current_class' # current_class =>
        /\ pc = "header"
        /\ hidx < Len(lines)
        /\ course_match(lines[hidx + 1])

\* the records of a page without header lines carry the course the preceding
\* pages left
HeaderlessPages ==
    \A j \in 1..Len(records) :
        (~\E h \in Positions : h[1] = origin[j][1] /\ IsHeaderAt(h)) =>
            /\ origin[j][1] > 1
            /\ ContextOfPage(origin[j][1] - 1) # EmptyDict
            /\ records[j].Class =
                  <<ContextOfPage(origin[j][1] - 1).Subject,
                    ContextOfPage(origin[j][1] - 1).CourseNumber>>
            /\ records[j].CRN = ContextOfPage(origin[j][1] - 1).CRN

(***************************************************************************)
(* C15: the course context changes only when a line matches the header     *)
(* shape.  A line of another shape leaves it unchanged, the row pass never *)
(* changes it, and it is carried unchanged across page boundaries: the     *)
(* rows of a page without header lines are attributed to the context the   *)
(* preceding pages left, and yield no record when that is 'no active       *)
(* course'.                                                                *)
(***************************************************************************)
C15_ContextFrame == [][ContextFrame]_vars /\ []HeaderlessPages

\* the scan has finished a page after the first, none of its lines is a
\* header line, and one of its rows gave a record
C15_Witness ==
    /\ pc = "page"
    /\ pageNo > 1
    /\ current_class # EmptyDict
    /\ \A i \in 1..Len(lines) : ~course_match(lines[i])
    /\ \E j \in 1..Len(records) : origin[j][1] = pageNo

\* the text before the identifier token of a line is '<marker> <lastName>,
\* <firstName>': there is text after the marker, and it has a comma
ClaimTextBefore(line) ==
    SubSeq(line, 1, (CHOOSE i \in 1..Len(line) :
                        /\ line[i] \in GNumTokens
                        /\ \A k \in 1..(i - 1) : line[k] \notin GNumTokens) - 1)
ClaimDecomposes(line) ==
    /\ Len(ClaimTextBefore(line)) >= 2
    /\ \E i \in 2..Len(ClaimTextBefore(line)) :
          ClaimTextBefore(line)[i] \in CommaTokens

(***************************************************************************)
(* C16: a line with an identifier token, scanned while a course is active, *)
(* whose text before the token does not decompose into '<marker>           *)
(* <lastName>, <firstName>' (no text after the marker, or no comma), still *)
(* gives a record; its first and last name are both empty (never one set   *)
(* and the other empty because of the failure), its identifier, class and  *)
(* crn are filled in; and the scan goes on: it reaches every page and ends *)
(* in the error handler only when a page fails to yield its text.          *)
(***************************************************************************)
C16_NameFailureTolerated ==
    /\ \A k \in 1..Len(visits) :
          LET line == LineAt(visits[k][1], visits[k][2])
          IN  (/\ \E i \in 1..Len(line) : line[i] \in GNumTokens
               /\ ClaimContext(visits[k][1]) # EmptyDict
               /\ ~ClaimDecomposes(line)) =>
                  \E j \in 1..Len(records) :
                      /\ origin[j] = visits[k]
                      /\ records[j].First = <<>>
                      /\ records[j].Last = <<>>
                      /\ records[j].G \in {line[i] : i \in 1..Len(line)}
                      /\ records[j].G \in GNumTokens
                      /\ records[j].Class =
                            <<ClaimContext(visits[k][1]).Subject,
                              ClaimContext(visits[k][1]).CourseNumber>>
                      /\ records[j].CRN = ClaimContext(visits[k][1]).CRN
    /\ \A j \in 1..Len(records) :
          (records[j].First = <<>>) # (records[j].Last = <<>>) =>
              ClaimDecomposes(LineAt(origin[j][1], origin[j][2]))
    /\ ScanDone => \A p \in 1..Len(doc) : \E k \in 1..Len(visits) : visits[k][1] = p
    /\ pc = "error" => ~doc[pageNo].ok

\* the export is reached with the record of a row without a comma, the
\* record of a row without text after the marker, and a page after them
C16_Witness ==
    /\ ScanDone
    /\ \E j \in 1..Len(records) :
          /\ LineAt(origin[j][1], origin[j][2]) = NoComma
          /\ records[j].First = <<>> /\ records[j].Last = <<>>
    /\ \E j \in 1..Len(records) :
          /\ LineAt(origin[j][1], origin[j][2]) = NoRemainder
          /\ records[j].First = <<>> /\ records[j].Last = <<>>
          /\ origin[j][1] < Len(doc)

\* a step leaves the record list as it is or puts one record at its end, and
\* a step that replaces or clears the context leaves it as it is
AppendOnly ==
    /\ \/ records' = records
       \/ /\ Len(records') = Len(records) + 1
          /\ SubSeq(records', 1, Len(records)) = records
    /\ current_class' # current_class => records' = records

\* the records are in the order of the rows that produced them
ScanOrder ==
    /\ Len(origin) = Len(records)
    /\ \A i, j \in 1..Len(records) : i < j => Before(origin[i], origin[j])
    /\ \A j \in 1..Len(records) :
          \E i \in 1..Len(LineAt(origin[j][1], origin[j][2])) :
              LineAt(origin[j][1], origin[j][2])[i] = records[j].G

(***************************************************************************)
(* C17: the record sequence is append-only and in scan order.  At every    *)
(* step the sequence so far is a prefix of the sequence after the step     *)
(* (hence of the final one); the records are ordered by (page, line index) *)
(* of the row that produced them; and a record already emitted is not      *)
(* changed when the course context is later replaced or cleared.           *)
(***************************************************************************)
C17_AppendOnlyScanOrder == [][AppendOnly]_vars /\ []ScanOrder

\* two records of different courses, the second context replaced the first
C17_Witness ==
    /\ pc = "done"
    /\ Len(records) = 2
    /\ records[1].CRN # records[2].CRN
    /\ origin[1][1] < origin[2][1]

\* the records of a class and crn, in the order of the record list, and the
\* place of the first of them
RecordsOf(key) ==
    SelectSeq(records, LAMBDA r : r.Class = key.Class /\ r.CRN = key.CRN)
FirstPlace(key) ==
    CHOOSE k \in 1..Len(records) :
        /\ records[k].Class = key.Class /\ records[k].CRN = key.CRN
        /\ \A i \in 1..(k - 1) :
              ~(records[i].Class = key.Class /\ records[i].CRN = key.CRN)

(***************************************************************************)
(* C18: grouping preserves order.  Within each group the records stand in  *)
(* the same relative order as in the full record sequence, and the groups  *)
(* are ordered by the position of their first record in the full record    *)
(* sequence; the class sheets of the workbook follow the same order.       *)
(***************************************************************************)
C18_GroupingKeepsOrder ==
    /\ Grouped =>
          /\ \A j \in 1..Len(grouped) :
                grouped[j].recs = RecordsOf(grouped[j].key)
          /\ \A j, k \in 1..Len(grouped) :
                j < k => FirstPlace(grouped[j].key) < FirstPlace(grouped[k].key)
    /\ pc \in {"show", "done"} =>
          /\ Len(workbook[1].classes) = Len(grouped)
          /\ \A j \in 1..Len(grouped) :
                /\ workbook[1].classes[j].name = grouped[j].key
                /\ workbook[1].classes[j].rows = RecordsOf(grouped[j].key)

\* three records, the second of another course than the first and the third
C18_Witness ==
    /\ pc = "done"
    /\ Len(records) = 3
    /\ Len(grouped) = 2
    /\ records[1].CRN = records[3].CRN
    /\ records[1].CRN # records[2].CRN
    /\ records[1] # records[3]
    /\ grouped[1].recs = <<records[1], records[3]>>

\* the run is over: the workbook is reported, the dialog was cancelled, or
\* the error handler has shown its message
Terminal == pc \in {"done", "exited", "error"}

\* an upper bound on the steps a run still has to take: the pages not yet
\* entered (one step to enter a page, at most two per line), the lines of the
\* current page still to go, and the steps from the end of the scan to the end
RECURSIVE PagesCost(_)
PagesCost(k) ==
    IF k >= Len(doc) THEN 0
    ELSE 1 + 2 * Len(SplitLines(doc[k + 1].text)) + PagesCost(k + 1)
StepsLeft ==
    CASE pc = "select" -> PagesCost(0) + 9
      [] pc = "open" -> PagesCost(0) + 8
      [] pc = "term" -> PagesCost(0) + 7
      [] pc = "page" -> PagesCost(pageNo) + 6
      [] pc = "header" ->
            PagesCost(pageNo) + 6 + (Len(lines) - hidx) + Len(lines)
      [] pc = "rows" -> PagesCost(pageNo) + 6 + (Len(lines) - idx)
      [] pc = "name" -> 5
      [] pc = "mkdir" -> 4
      [] pc = "group" -> 3
      [] pc = "write" -> 2
      [] pc = "show" -> 1
      [] OTHER -> 0

\* one step of a run
ScanStep ==
    /\ StepsLeft' < StepsLeft
    /\ pc = "rows" => idx' > idx
    /\ pageNo' \in {pageNo, pageNo + 1}
    /\ pageNo' # pageNo => pc = "page" /\ pc' \in {"header", "error"}
    /\ pc = "page" /\ pageNo = Len(doc) => pc' = "name"
    /\ pc = "name" => pc' = "mkdir"
    /\ pc = "mkdir" => pc' = "group"
    /\ pc = "group" => pc' = "write"

\* the state of a run
ScanState ==
    /\ StepsLeft >= 0
    /\ Terminal \/ ENABLED Next
    /\ \A i, j \in 1..Len(visits) : i < j => Before(visits[i], visits[j])
    /\ \A k \in 1..Len(visits) :
          visits[k][1] \in 1..pageNo /\
          visits[k][2] \in 0..(Len(PageLines(visits[k][1])) - 1)
    /\ ScanDone =>
          /\ pageNo = Len(doc)
          /\ \A p \in 1..Len(doc) : \E k \in 1..Len(visits) : visits[k] = <<p, 0>>

(***************************************************************************)
(* C19: for every finite document the scan terminates.  Every step lowers  *)
(* a bound on the steps left and no state short of the end is stuck; the   *)
(* row-pass index strictly increases on every iteration; each line of each *)
(* page is examined as a potential student row at most once; each page is  *)
(* processed once, in page order; and after the last page the run goes on  *)
(* to the grouping and the export.                                         *)
(***************************************************************************)
C19_ScanTerminates == [][ScanStep]_vars /\ []ScanState

\* a run over two pages has ended with the export, with rows taken and
\* lines passed over
C19_Witness ==
    /\ pc = "done"
    /\ Len(doc) = 2
    /\ Len(visits) >= 3
    /\ Len(records) >= 1
    /\ Len(visits) < Len(PageLines(1)) + Len(PageLines(2))
    /\ workbook # <<>>

\* the two workbooks are workbooks the parser writes, with a sheet name in
\* common
ParserWorkbooks ==
    /\ first_week_book \in ParserBooks
    /\ second_week_book \in ParserBooks
    /\ SharedNames # {}

(***************************************************************************)
(* C20: the comparison can consume the workbooks the parser writes.  For   *)
(* two such workbooks with a sheet name in common, every column the        *)
(* comparison selects after the merge (First Name, Last Name, G Number,    *)
(* PCC email address, Class, Term, CRN) is a column of the parser's        *)
(* records, so the comparison does not fail on a missing column: it runs   *)
(* to completion and writes its result.                                    *)
(***************************************************************************)
C20_ComparisonConsumesParserOutput ==
    (ParserWorkbooks /\ first_week_file # "" /\ second_week_file # "") =>
        /\ cpc # "crashed"
        /\ sheetNo > 0 => SelectedColumns \subseteq ParserColumns

====
